---- MODULE Spec2Model ----
(***************************************************************************)
(* File integrity monitor (file_checker.py): one monitoring process that   *)
(* repeatedly scans a folder, compares SHA-256 digests with the snapshot   *)
(* stored in hashes.json, alerts on changes and stores the new snapshot    *)
(* after copying the old one to hashes_backup.json.                        *)
(*                                                                         *)
(* Strings that the code inspects (directory paths, file names) are        *)
(* sequences of string pieces, so that `in` and endswith are computed.     *)
(* A file on disk is a record [exists, text]; the text of a state file is  *)
(* a sequence of JSON tokens, so a truncated or partly written file is a   *)
(* prefix of a serialization and json.load is a parser over tokens.        *)
(***************************************************************************)
EXTENDS Naturals, Sequences, FiniteSets

\* ------------------------------------------------------------------ bounds
\* number of changes the environment makes to the watched folder
MaxFsChanges == 2

\* --------------------------------------------------------- configuration
FOLDER_TO_MONITOR == <<"test_folder">>

EXCLUDE_EXTENSIONS == {<<".tmp">>, <<".log">>}

EXCLUDE_DIRECTORIES == {<<"__pycache__">>, <<".git">>}

\* os.path.join(root, file)
join(root, file) == root \o <<"/">> \o file

GitDir == join(FOLDER_TO_MONITOR, <<".git">>)

\* The (root, file) pairs os.walk can yield, in traversal order: two
\* ordinary files, one with an excluded extension, one under an excluded
\* directory.
WalkList ==
    << <<FOLDER_TO_MONITOR, <<"a", ".txt">> >>,
       <<FOLDER_TO_MONITOR, <<"b", ".txt">> >>,
       <<FOLDER_TO_MONITOR, <<"cache", ".tmp">> >>,
       <<GitDir, <<"config">> >> >>

PathOf(i) == join(WalkList[i][1], WalkList[i][2])

AllPaths == {PathOf(i) : i \in DOMAIN WalkList}

PathA == PathOf(1)

PathB == PathOf(2)

PathTmp == PathOf(3)

PathGit == PathOf(4)

NoFile == "<none>"

Contents == {"hello", "world"}

\* ------------------------------------------------------ string operations
\* Python: frag in s
Contains(frag, s) ==
    \E i \in 0..Len(s) :
        /\ i + Len(frag) <= Len(s)
        /\ SubSeq(s, i + 1, i + Len(frag)) = frag

\* Python: s.endswith(ext)
EndsWith(s, ext) ==
    /\ Len(ext) <= Len(s)
    /\ SubSeq(s, Len(s) - Len(ext) + 1, Len(s)) = ext

\* any(excluded in root for excluded in EXCLUDE_DIRECTORIES)
IsExcludedDir(root) == \E excluded \in EXCLUDE_DIRECTORIES : Contains(excluded, root)

\* any(file.endswith(ext) for ext in EXCLUDE_EXTENSIONS)
IsExcludedExtOnlyLog(file) == EndsWith(file, <<".log">>)

IsExcludedExt(file) == \E ext \in EXCLUDE_EXTENSIONS : EndsWith(file, ext)

\* ----------------------------------------------------------------- digest
\* hashlib.sha256(content).hexdigest(), first six hex digits
Sha256(content) ==
    CASE content = "hello" -> "2cf24d"
      [] content = "world" -> "486ea4"
      [] OTHER -> "e3b0c4"

None == "<None>"

\* ------------------------------------------------------- snapshots, JSON
EmptySnap == [p \in {} |-> None]

Keys(d) == DOMAIN d

LBrace == <<"{">>

RBrace == <<"}">>

LBracket == <<"[">>

RBracket == <<"]">>

\* a byte sequence that is not valid text in the locale encoding
BadBytes == <<"\\xff">>

KV(p, d) == <<"kv", p, d>>

IsKV(t) == Len(t) = 3 /\ t[1] = "kv"

\* the entries of dict d for the walk positions i..Len(WalkList), in
\* insertion order (current_files is filled in traversal order)
RECURSIVE Entries(_, _)
Entries(d, i) ==
    IF i > Len(WalkList) THEN <<>>
    ELSE IF PathOf(i) \in DOMAIN d
         THEN <<KV(PathOf(i), d[PathOf(i)])>> \o Entries(d, i + 1)
         ELSE Entries(d, i + 1)

\* json.dump(hashes, f, indent=4): the chunks written, in order
JsonDump(d) == <<LBrace>> \o Entries(d, 1) \o <<RBrace>>

Prefixes(s) == {SubSeq(s, 1, n) : n \in 0..Len(s)}

ProperPrefixes(s) == {SubSeq(s, 1, n) : n \in 0..(Len(s) - 1)}

\* f.read() in text mode raises UnicodeDecodeError on undecodable bytes
Decodable(text) == \A i \in DOMAIN text : text[i] /= BadBytes

\* json.load: an object of string members, another JSON value, or
\* JSONDecodeError.  A repeated key keeps its last value.
IsObjectText(text) ==
    /\ Len(text) >= 2
    /\ text[1] = LBrace
    /\ text[Len(text)] = RBrace
    /\ \A i \in 2..(Len(text) - 1) : IsKV(text[i])

ObjectOf(text) ==
    LET idx == 2..(Len(text) - 1)
        ks  == {text[i][2] : i \in idx}
        last(p) == CHOOSE i \in idx :
                      /\ text[i][2] = p
                      /\ \A j \in idx : text[j][2] = p => j <= i
    IN [p \in ks |-> text[last(p)][3]]

JsonLoad(text) ==
    IF IsObjectText(text) THEN [kind |-> "dict", value |-> ObjectOf(text)]
    ELSE IF text = <<LBracket, RBracket>> THEN [kind |-> "list", value |-> EmptySnap]
    ELSE [kind |-> "JSONDecodeError", value |-> EmptySnap]

\* ------------------------------------------------------------------ files
Absent == [exists |-> FALSE, text |-> <<>>]

FileWith(text) == [exists |-> TRUE, text |-> text]

\* load_hashes(): the outcome for a given state file
load_hashes(file) ==
    IF ~file.exists THEN [kind |-> "dict", value |-> EmptySnap]
    ELSE IF ~Decodable(file.text) THEN [kind |-> "UnicodeDecodeError", value |-> EmptySnap]
    ELSE IF JsonLoad(file.text).kind = "JSONDecodeError"
         THEN [kind |-> "reset", value |-> EmptySnap]
    ELSE JsonLoad(file.text)

\* ------------------------------------------------------------------ state
VARIABLES
    pc,               \* position of the monitor process
    rootExists,       \* FOLDER_TO_MONITOR exists
    fs,               \* watched folder: path -> content or NoFile
    unreadable,       \* existing files that open() rejects
    hashFile,         \* HASH_FILE on disk
    backupFile,       \* BACKUP_FILE on disk
    hashes,           \* check_folder: the loaded snapshot
    hashesIsDict,     \* check_folder: json.load returned an object
    current_files,    \* check_folder: the snapshot being built
    changes_detected, \* check_folder
    idx,              \* check_folder: position of os.walk in WalkList
    deleted_files,    \* check_folder: deleted paths not yet reported
    alerts,           \* send_email_alert calls of this cycle, in order
    data,             \* backup_hashes: text read from HASH_FILE
    log,              \* messages logged in this cycle
    saveStatus,       \* history: how far save_hashes of this cycle got
    priorFile,        \* history: HASH_FILE when save_hashes was entered
    stoppedAt,        \* history: pc at which Ctrl+C arrived
    prevRun,          \* history: the previous cycle, while the folder is unchanged
    everSaved,        \* history: some save_hashes call has run to its end
    stage,            \* history: how far the run has followed the a.txt scenario
    nchanges          \* number of folder changes made

vars == <<pc, rootExists, fs, unreadable, hashFile, backupFile, hashes,
          hashesIsDict, current_files, changes_detected, idx, deleted_files,
          alerts, data, log, saveStatus, priorFile, stoppedAt, prevRun, everSaved,
          stage, nchanges>>

disk == <<hashFile, backupFile>>

folder == <<rootExists, fs, unreadable, nchanges>>

locals == <<hashes, hashesIsDict, current_files, changes_detected, idx,
            deleted_files, alerts, data, log, saveStatus, priorFile>>

history == <<stoppedAt, prevRun, everSaved, stage>>

marks == <<everSaved, stage>>

NoPrevRun == [known |-> FALSE, snapshot |-> EmptySnap, saved |-> FALSE,
              writeFailed |-> FALSE]

\* the folder of the scenario: a.txt alone, with content c
OnlyA(c) == [p \in AllPaths |-> IF p = PathA THEN c ELSE NoFile]

EmptyFolder == [p \in AllPaths |-> NoFile]

\* a snapshot written by an earlier run under another exclusion policy
StaleFile == FileWith(<<LBrace, KV(PathA, Sha256("hello")),
                        KV(PathTmp, Sha256("hello")), RBrace>>)

\* state files the process may find when it starts
InitStateFiles ==
    { Absent,
      StaleFile,
      FileWith(<<LBracket, RBracket>>),
      FileWith(<<BadBytes>>) }

InitFolders ==
    { [p \in AllPaths |-> NoFile],
      [p \in AllPaths |-> IF p = PathA THEN "hello" ELSE NoFile] }

Init ==
    /\ pc = "sleep"
    /\ rootExists = TRUE
    /\ fs \in InitFolders
    /\ unreadable = {}
    /\ hashFile \in InitStateFiles
    /\ backupFile = Absent
    /\ hashes = EmptySnap
    /\ hashesIsDict = TRUE
    /\ current_files = EmptySnap
    /\ changes_detected = FALSE
    /\ idx = 0
    /\ deleted_files = {}
    /\ alerts = <<>>
    /\ data = <<>>
    /\ log = {}
    /\ saveStatus = "none"
    /\ priorFile = Absent
    /\ stoppedAt = "none"
    /\ prevRun = NoPrevRun
    /\ everSaved = FALSE
    /\ stage = IF hashFile = Absent /\ fs = OnlyA("hello") THEN "cycle1" ELSE "off"
    /\ nchanges = 0

\* ------------------------------------------------------------ the folder
\* The folder changes while the monitor sleeps between two cycles.
FolderChange ==
    /\ pc = "sleep"
    /\ nchanges < MaxFsChanges
    /\ nchanges' = nchanges + 1
    /\ prevRun' = NoPrevRun
    /\ UNCHANGED <<pc, disk, locals, stoppedAt, everSaved>>

\* the scenario goes on when a.txt is rewritten after its second cycle and
\* removed after its third; any other change leaves it
TrackChange ==
    stage' = IF stage = "after2" /\ fs' = OnlyA("world") /\ unreadable' = {}
                  THEN "cycle3"
             ELSE IF stage = "after3" /\ fs' = EmptyFolder /\ rootExists'
                  THEN "cycle4"
             ELSE "off"

CreateFile ==
    /\ FolderChange
    /\ rootExists
    /\ \E p \in AllPaths, c \in Contents :
          /\ fs[p] = NoFile
          /\ fs' = [fs EXCEPT ![p] = c]
    /\ UNCHANGED <<rootExists, unreadable>>
    /\ TrackChange

ModifyFile ==
    /\ FolderChange
    /\ \E p \in AllPaths, c \in Contents :
          /\ fs[p] /= NoFile
          /\ fs[p] /= c
          /\ fs' = [fs EXCEPT ![p] = c]
    /\ UNCHANGED <<rootExists, unreadable>>
    /\ TrackChange

DeleteFile ==
    /\ FolderChange
    /\ \E p \in AllPaths :
          /\ fs[p] /= NoFile
          /\ fs' = [fs EXCEPT ![p] = NoFile]
          /\ unreadable' = unreadable \ {p}
    /\ UNCHANGED rootExists
    /\ TrackChange

\* chmod: a file becomes unreadable or readable again
ChmodFile ==
    /\ FolderChange
    /\ \E p \in AllPaths :
          /\ fs[p] /= NoFile
          /\ unreadable' = IF p \in unreadable THEN unreadable \ {p}
                           ELSE unreadable \cup {p}
    /\ UNCHANGED <<rootExists, fs>>
    /\ TrackChange

RemoveRoot ==
    /\ FolderChange
    /\ rootExists
    /\ rootExists' = FALSE
    /\ fs' = [p \in AllPaths |-> NoFile]
    /\ unreadable' = {}
    /\ TrackChange

CreateRoot ==
    /\ FolderChange
    /\ ~rootExists
    /\ rootExists' = TRUE
    /\ UNCHANGED <<fs, unreadable>>
    /\ TrackChange

\* ------------------------------------------------------------ check_folder
\* the next position at or after i at which os.walk yields a file
RECURSIVE NextIdx(_)
NextIdx(i) ==
    IF i > Len(WalkList) THEN i
    ELSE IF rootExists /\ fs[PathOf(i)] /= NoFile THEN i
    ELSE NextIdx(i + 1)

\* calculate_file_hash(filepath): the digest, or None when the read fails
calculate_file_hash(filepath) ==
    IF filepath \in unreadable THEN None ELSE Sha256(fs[filepath])

\* lines 136-146: what the scan reports for a hashed file
ClassifyNeverModified(old, filepath, file_hash) ==
    IF filepath \in DOMAIN old THEN "Unchanged" ELSE "New File Added"

Classify(old, filepath, file_hash) ==
    IF filepath \in DOMAIN old
    THEN IF old[filepath] /= file_hash THEN "Modified" ELSE "Unchanged"
    ELSE "New File Added"

\* line 149
DeletedFilesNone(old, new) == {}

DeletedFiles(old, new) == Keys(old) \ Keys(new)

\* line 157
NeedSaveKeysOnly(changed, old, new) == Keys(old) /= Keys(new)

NeedSave(changed, old, new) == changed \/ Keys(old) /= Keys(new)

\* send_email_alert(filepath, change_type): the call.  Whether SMTP delivery
\* succeeded shows in the log only (a failure is logged and swallowed).
Alert(filepath, change_type) ==
    [path |-> filepath, change_type |-> change_type]

EmailLog(sent) == IF sent THEN {"Email alert sent"} ELSE {"Failed to send email"}

\* line 116, load_hashes returns
LoadHashesCreatesFile ==
    /\ pc = "sleep"
    /\ load_hashes(hashFile).kind /= "UnicodeDecodeError"
    /\ hashes' = load_hashes(hashFile).value
    /\ hashesIsDict' = (load_hashes(hashFile).kind /= "list")
    /\ log' = IF load_hashes(hashFile).kind = "reset"
              THEN {"Error reading hash file. Resetting..."} ELSE {}
    /\ current_files' = EmptySnap
    /\ changes_detected' = FALSE
    /\ idx' = NextIdx(1)
    /\ pc' = "walk"
    /\ hashFile' = IF hashFile.exists THEN hashFile ELSE FileWith(<<LBrace, RBrace>>)
    /\ UNCHANGED <<folder, backupFile, deleted_files, alerts, data, saveStatus,
                   priorFile, stoppedAt, prevRun, marks>>

LoadHashes ==
    /\ pc = "sleep"
    /\ load_hashes(hashFile).kind /= "UnicodeDecodeError"
    /\ hashes' = load_hashes(hashFile).value
    /\ hashesIsDict' = (load_hashes(hashFile).kind /= "list")
    /\ log' = IF load_hashes(hashFile).kind = "reset"
              THEN {"Error reading hash file. Resetting..."} ELSE {}
    /\ current_files' = EmptySnap
    /\ changes_detected' = FALSE
    /\ idx' = NextIdx(1)
    /\ pc' = "walk"
    /\ UNCHANGED <<folder, disk, deleted_files, alerts, data, saveStatus,
                   priorFile, stoppedAt, prevRun, marks>>

\* line 116, load_hashes raises an exception other than JSONDecodeError,
\* which nothing up to the top of the process handles
LoadCrash ==
    /\ pc = "sleep"
    /\ load_hashes(hashFile).kind = "UnicodeDecodeError"
    /\ pc' = "crashed"
    /\ UNCHANGED <<folder, disk, locals, stoppedAt, prevRun, marks>>

Visiting ==
    /\ pc = "walk"
    /\ idx <= Len(WalkList)

Advance ==
    /\ idx' = NextIdx(idx + 1)
    /\ UNCHANGED <<pc, folder, disk, hashes, hashesIsDict, deleted_files, data,
                   saveStatus, priorFile, history>>

\* lines 122-123
SkipExcludedDir ==
    /\ Visiting
    /\ IsExcludedDir(WalkList[idx][1])
    /\ Advance
    /\ UNCHANGED <<current_files, changes_detected, alerts, log>>

\* lines 126-127
SkipExcludedExt ==
    /\ Visiting
    /\ ~IsExcludedDir(WalkList[idx][1])
    /\ IsExcludedExt(WalkList[idx][2])
    /\ Advance
    /\ UNCHANGED <<current_files, changes_detected, alerts, log>>

Hashing ==
    /\ Visiting
    /\ ~IsExcludedDir(WalkList[idx][1])
    /\ ~IsExcludedExt(WalkList[idx][2])

\* lines 130-132 with file_hash None: the scan goes on with the next file
AfterHashFailedAbort ==
    /\ idx' = Len(WalkList) + 1
    /\ UNCHANGED <<pc, folder, disk, hashes, hashesIsDict, deleted_files, data,
                   saveStatus, priorFile, history>>

AfterHashFailed == Advance

HashFailed ==
    /\ Hashing
    /\ calculate_file_hash(PathOf(idx)) = None
    /\ log' = log \cup {"Error hashing"}
    /\ AfterHashFailed
    /\ UNCHANGED <<current_files, changes_detected, alerts>>

\* lines 132-137 with the digest equal to the stored one
FileUnchanged ==
    /\ Hashing
    /\ calculate_file_hash(PathOf(idx)) /= None
    /\ Classify(hashes, PathOf(idx), calculate_file_hash(PathOf(idx))) = "Unchanged"
    /\ current_files' = [p \in Keys(current_files) \cup {PathOf(idx)} |->
                            IF p = PathOf(idx) THEN calculate_file_hash(p)
                            ELSE current_files[p]]
    /\ Advance
    /\ UNCHANGED <<changes_detected, alerts, log>>

\* the same step with a second send_email_alert call after a failed delivery
FileChangedRetry ==
    /\ Hashing
    /\ calculate_file_hash(PathOf(idx)) /= None
    /\ Classify(hashes, PathOf(idx), calculate_file_hash(PathOf(idx))) /= "Unchanged"
    /\ current_files' = [p \in Keys(current_files) \cup {PathOf(idx)} |->
                            IF p = PathOf(idx) THEN calculate_file_hash(p)
                            ELSE current_files[p]]
    /\ \E sent \in BOOLEAN :
          LET call == Alert(PathOf(idx),
                            Classify(hashes, PathOf(idx),
                                     calculate_file_hash(PathOf(idx))))
          IN /\ alerts' = IF sent THEN Append(alerts, call)
                          ELSE Append(Append(alerts, call), call)
             /\ log' = log \cup EmailLog(sent)
    /\ changes_detected' = TRUE
    /\ Advance

\* lines 132-146 for a modified or new file
FileChanged ==
    /\ Hashing
    /\ calculate_file_hash(PathOf(idx)) /= None
    /\ Classify(hashes, PathOf(idx), calculate_file_hash(PathOf(idx))) /= "Unchanged"
    /\ current_files' = [p \in Keys(current_files) \cup {PathOf(idx)} |->
                            IF p = PathOf(idx) THEN calculate_file_hash(p)
                            ELSE current_files[p]]
    /\ \E sent \in BOOLEAN :
          /\ alerts' = Append(alerts,
                 Alert(PathOf(idx),
                       Classify(hashes, PathOf(idx), calculate_file_hash(PathOf(idx)))))
          /\ log' = log \cup EmailLog(sent)
    /\ changes_detected' = TRUE
    /\ Advance

\* line 149 on a loaded object
WalkDone ==
    /\ pc = "walk"
    /\ idx > Len(WalkList)
    /\ hashesIsDict
    /\ deleted_files' = DeletedFiles(hashes, current_files)
    /\ pc' = "deleted"
    /\ UNCHANGED <<folder, disk, hashes, hashesIsDict, current_files,
                   changes_detected, idx, alerts, data, log, saveStatus,
                   priorFile, history>>

\* line 149 when json.load returned a value without keys(): AttributeError
KeysCrash ==
    /\ pc = "walk"
    /\ idx > Len(WalkList)
    /\ ~hashesIsDict
    /\ pc' = "crashed"
    /\ UNCHANGED <<folder, disk, locals, history>>

\* lines 150-154, one iteration (a set is iterated in no fixed order)
ReportDeleted ==
    /\ pc = "deleted"
    /\ \E p \in deleted_files, sent \in BOOLEAN :
          /\ deleted_files' = deleted_files \ {p}
          /\ alerts' = Append(alerts, Alert(p, "Deleted"))
          /\ log' = log \cup EmailLog(sent)
    /\ changes_detected' = TRUE
    /\ UNCHANGED <<pc, folder, disk, hashes, hashesIsDict, current_files, idx,
                   data, saveStatus, priorFile, history>>

\* line 157 false
SkipSave ==
    /\ pc = "deleted"
    /\ deleted_files = {}
    /\ ~NeedSave(changes_detected, hashes, current_files)
    /\ pc' = "report"
    /\ UNCHANGED <<folder, disk, locals, history>>

\* line 157 true: save_hashes(current_files) is entered
EnterSave ==
    /\ pc = "deleted"
    /\ deleted_files = {}
    /\ NeedSave(changes_detected, hashes, current_files)
    /\ saveStatus' = "entered"
    /\ priorFile' = hashFile
    /\ pc' = "backup"
    /\ UNCHANGED <<folder, disk, hashes, hashesIsDict, current_files,
                   changes_detected, idx, deleted_files, alerts, data, log,
                   history>>

\* ------------------------------------------------- save_hashes, backup
SaveFrameButSaved ==
    UNCHANGED <<folder, hashes, hashesIsDict, current_files, changes_detected,
                idx, deleted_files, alerts, priorFile, stoppedAt, prevRun, stage>>

SaveFrame ==
    /\ SaveFrameButSaved
    /\ UNCHANGED everSaved

\* line 45 false: there is no state file to copy
BackupNone ==
    /\ pc = "backup"
    /\ ~hashFile.exists
    /\ pc' = "st_open"
    /\ UNCHANGED <<disk, data, log, saveStatus>>
    /\ SaveFrame

\* lines 47-48
BackupRead ==
    /\ pc = "backup"
    /\ hashFile.exists
    /\ data' = hashFile.text
    /\ pc' = "bk_open"
    /\ UNCHANGED <<disk, log, saveStatus>>
    /\ SaveFrame

\* lines 47-48 raise; lines 52-53
BackupReadFailAborts ==
    /\ pc = "backup"
    /\ hashFile.exists
    /\ log' = log \cup {"Error creating backup"}
    /\ pc' = "report"
    /\ UNCHANGED <<disk, data, saveStatus>>
    /\ SaveFrame

BackupReadFail ==
    /\ pc = "backup"
    /\ hashFile.exists
    /\ log' = log \cup {"Error creating backup"}
    /\ pc' = "st_open"
    /\ UNCHANGED <<disk, data, saveStatus>>
    /\ SaveFrame

\* line 49: open(BACKUP_FILE, 'w') creates or truncates the file
BackupOpen ==
    /\ pc = "bk_open"
    /\ backupFile' = FileWith(<<>>)
    /\ pc' = "bk_write"
    /\ UNCHANGED <<hashFile, data, log, saveStatus>>
    /\ SaveFrame

\* line 49 raises; lines 52-53
BackupOpenFail ==
    /\ pc = "bk_open"
    /\ log' = log \cup {"Error creating backup"}
    /\ pc' = "st_open"
    /\ UNCHANGED <<disk, data, saveStatus>>
    /\ SaveFrame

\* lines 50-51: the text is written and the file closed
BackupWriteAfterState ==
    /\ pc = "bk_write"
    /\ backupFile' = FileWith(JsonDump(current_files))
    /\ log' = log \cup {"Backup of hash file created."}
    /\ pc' = "st_open"
    /\ UNCHANGED <<hashFile, data, saveStatus>>
    /\ SaveFrame

BackupWrite ==
    /\ pc = "bk_write"
    /\ backupFile' = FileWith(data)
    /\ log' = log \cup {"Backup of hash file created."}
    /\ pc' = "st_open"
    /\ UNCHANGED <<hashFile, data, saveStatus>>
    /\ SaveFrame

\* line 50 or the close raises after part of the text reached the disk
BackupWriteFail ==
    /\ pc = "bk_write"
    /\ \E part \in ProperPrefixes(data) : backupFile' = FileWith(part)
    /\ log' = log \cup {"Error creating backup"}
    /\ pc' = "st_open"
    /\ UNCHANGED <<hashFile, data, saveStatus>>
    /\ SaveFrame

\* line 82: open(HASH_FILE, 'w') creates or truncates the file
StateOpen ==
    /\ pc = "st_open"
    /\ hashFile' = FileWith(<<>>)
    /\ saveStatus' = "writing"
    /\ pc' = "st_dump"
    /\ UNCHANGED <<backupFile, data, log>>
    /\ SaveFrame

\* line 82 raises before the file is touched; lines 84-85
StateOpenFailTruncated ==
    /\ pc = "st_open"
    /\ hashFile' = FileWith(<<>>)
    /\ saveStatus' = "failed_open"
    /\ log' = log \cup {"Error saving hashes"}
    /\ pc' = "report"
    /\ UNCHANGED <<backupFile, data>>
    /\ SaveFrame

StateOpenFail ==
    /\ pc = "st_open"
    /\ saveStatus' = "failed_open"
    /\ log' = log \cup {"Error saving hashes"}
    /\ pc' = "report"
    /\ UNCHANGED <<disk, data>>
    /\ SaveFrame

\* line 83 and the close: the whole serialization is written
StateDump ==
    /\ pc = "st_dump"
    /\ hashFile' = FileWith(JsonDump(current_files))
    /\ saveStatus' = "done"
    /\ everSaved' = TRUE
    /\ pc' = "report"
    /\ UNCHANGED <<backupFile, data, log>>
    /\ SaveFrameButSaved

\* line 83 or the close raises after part of the chunks reached the disk;
\* lines 84-85
StateDumpFail ==
    /\ pc = "st_dump"
    /\ \E part \in ProperPrefixes(JsonDump(current_files)) :
          hashFile' = FileWith(part)
    /\ saveStatus' = "failed_write"
    /\ log' = log \cup {"Error saving hashes"}
    /\ pc' = "report"
    /\ UNCHANGED <<backupFile, data>>
    /\ SaveFrame

\* lines 160-162, check_folder returns, line 171 sleeps
EndCycle ==
    /\ pc = "report"
    /\ pc' = "sleep"
    /\ prevRun' = [known |-> TRUE, snapshot |-> current_files,
                   saved |-> saveStatus = "done",
                   writeFailed |-> saveStatus \in {"failed_open", "failed_write"}]
    /\ stage' = IF saveStatus \in {"failed_open", "failed_write"} THEN "off"
                ELSE CASE stage = "cycle1" -> "cycle2"
                       [] stage = "cycle2" -> "after2"
                       [] stage = "cycle3" -> "after3"
                       [] stage = "cycle4" -> "done"
                       [] OTHER -> "off"
    /\ hashes' = EmptySnap
    /\ hashesIsDict' = TRUE
    /\ current_files' = EmptySnap
    /\ changes_detected' = FALSE
    /\ idx' = 0
    /\ deleted_files' = {}
    /\ alerts' = <<>>
    /\ data' = <<>>
    /\ log' = {}
    /\ saveStatus' = "none"
    /\ priorFile' = Absent
    /\ UNCHANGED <<folder, disk, stoppedAt, everSaved>>

\* ------------------------------------------------------------ monitor_files
\* lines 172-174: Ctrl+C at any point.  A file that is open for writing is
\* closed by its with block, with whatever was written so far.
Interrupt ==
    /\ pc \notin {"stopped", "crashed"}
    /\ stoppedAt' = pc
    /\ pc' = "stopped"
    /\ IF pc = "bk_write"
       THEN \E part \in Prefixes(data) : backupFile' = FileWith(part)
       ELSE UNCHANGED backupFile
    /\ IF pc = "st_dump"
       THEN \E part \in Prefixes(JsonDump(current_files)) : hashFile' = FileWith(part)
       ELSE UNCHANGED hashFile
    /\ UNCHANGED <<folder, locals, prevRun, marks>>

Next ==
    \/ CreateFile \/ ModifyFile \/ DeleteFile \/ ChmodFile
    \/ RemoveRoot \/ CreateRoot
    \/ LoadHashes \/ LoadCrash
    \/ SkipExcludedDir \/ SkipExcludedExt \/ HashFailed
    \/ FileUnchanged \/ FileChanged
    \/ WalkDone \/ KeysCrash \/ ReportDeleted \/ SkipSave \/ EnterSave
    \/ BackupNone \/ BackupRead \/ BackupReadFail
    \/ BackupOpen \/ BackupOpenFail \/ BackupWrite \/ BackupWriteFail
    \/ StateOpen \/ StateOpenFail \/ StateDump \/ StateDumpFail
    \/ EndCycle \/ Interrupt

Spec == Init /\ [][Next]_vars

\* A fresh installation: no state file and no backup yet.  Nothing the
\* monitor writes makes load_hashes raise, so the two crash steps are not
\* part of this specification.
InitFresh ==
    /\ Init
    /\ hashFile = Absent

NextFresh ==
    \/ CreateFile \/ ModifyFile \/ DeleteFile \/ ChmodFile
    \/ RemoveRoot \/ CreateRoot
    \/ LoadHashes
    \/ SkipExcludedDir \/ SkipExcludedExt \/ HashFailed
    \/ FileUnchanged \/ FileChanged
    \/ WalkDone \/ ReportDeleted \/ SkipSave \/ EnterSave
    \/ BackupNone \/ BackupRead \/ BackupReadFail
    \/ BackupOpen \/ BackupOpenFail \/ BackupWrite \/ BackupWriteFail
    \/ StateOpen \/ StateOpenFail \/ StateDump \/ StateDumpFail
    \/ EndCycle \/ Interrupt

SpecFresh == InitFresh /\ [][NextFresh]_vars

\* ================================================================ claims
SavePcs == {"backup", "bk_open", "bk_write", "st_open", "st_dump"}

\* the scan and every notification of the cycle are done
CycleReported == pc \in SavePcs \cup {"report"}

\* the four classes of the claim, from the two snapshots alone
AddedPaths == {p \in Keys(current_files) : p \notin Keys(hashes)}

ModifiedPaths ==
    {p \in Keys(current_files) \cap Keys(hashes) : hashes[p] /= current_files[p]}

UnchangedPaths ==
    {p \in Keys(current_files) \cap Keys(hashes) : hashes[p] = current_files[p]}

DeletedPaths == {p \in Keys(hashes) : p \notin Keys(current_files)}

Calls(p, kind) == Cardinality({i \in DOMAIN alerts : alerts[i] = Alert(p, kind)})

CallsFor(p) == Cardinality({i \in DOMAIN alerts : alerts[i].path = p})

\* C1: once a cycle has reported, every path of the old or the new snapshot
\* is in exactly one of added, modified, unchanged, deleted, as the two
\* snapshots decide; the added, modified and deleted paths have exactly one
\* Notifier call each, of their kind, and no other path has any.
C1_Classification ==
    CycleReported =>
        /\ AddedPaths \cup ModifiedPaths \cup UnchangedPaths \cup DeletedPaths
              = Keys(hashes) \cup Keys(current_files)
        /\ \A p \in AddedPaths :
              Calls(p, "New File Added") = 1 /\ CallsFor(p) = 1
        /\ \A p \in ModifiedPaths :
              Calls(p, "Modified") = 1 /\ CallsFor(p) = 1
        /\ \A p \in DeletedPaths :
              Calls(p, "Deleted") = 1 /\ CallsFor(p) = 1
        /\ \A p \in UnchangedPaths : CallsFor(p) = 0
        /\ \A i \in DOMAIN alerts :
              alerts[i].path \in AddedPaths \cup ModifiedPaths \cup DeletedPaths

C1_Witness ==
    /\ pc = "report"
    /\ AddedPaths /= {}
    /\ ModifiedPaths /= {}
    /\ DeletedPaths /= {}

Restored == IF backupFile.exists THEN backupFile ELSE hashFile

\* C3: when Ctrl+C stops the process inside a save_hashes call that found a
\* state file, restoring the backup and loading gives the snapshot that was
\* persisted when the save began.
C3_BackupInvariant ==
    (pc = "stopped" /\ stoppedAt \in SavePcs /\ priorFile.exists) =>
        load_hashes(Restored).value = load_hashes(priorFile).value

\* C4: after save_hashes has run on an existing state file - to its end,
\* into a failure or into an interrupt - the state file holds the whole new
\* snapshot or what it held before, never a part of a serialization.
C4_NeverPartial ==
    (saveStatus /= "none" /\ pc \in {"report", "stopped"} /\ priorFile.exists) =>
        hashFile \in {priorFile, FileWith(JsonDump(current_files))}

BackupLogged == "Backup of hash file created." \in log

BackupFailed == "Error creating backup" \in log

\* C5: in a save that finds a state file and whose backup copy does not
\* fail, the backup file holds the state file's content of before the save
\* from the moment the copy is done: before the state file is opened for
\* writing, while it is written, and when the save has ended.
C5_BackupBeforeWrite ==
    /\ (saveStatus \in {"writing", "done", "failed_write"}
          /\ priorFile.exists /\ ~BackupFailed)
         => (BackupLogged /\ backupFile = priorFile)
    /\ (pc = "st_open" /\ BackupLogged)
         => (backupFile = priorFile /\ hashFile = priorFile)

C5_Witness ==
    /\ pc = "report"
    /\ saveStatus = "done"
    /\ BackupLogged
    /\ priorFile.text /= <<>>
    /\ hashFile /= priorFile
    /\ backupFile = priorFile

\* the claim's exclusion rule, for walk position i
ClaimExcluded(i) ==
    \/ \E d \in EXCLUDE_DIRECTORIES : Contains(d, WalkList[i][1])
    \/ \E e \in EXCLUDE_EXTENSIONS : EndsWith(WalkList[i][2], e)

ExcludedPaths == {PathOf(i) : i \in {j \in DOMAIN WalkList : ClaimExcluded(j)}}

\* the keys written in a file's text, whole or partial
KeysInFile(file) == {file.text[i][2] : i \in {j \in DOMAIN file.text : IsKV(file.text[j])}}

\* C6: from a fresh installation on, a file under an excluded directory or
\* with an excluded extension is no key of the snapshot being built, of the
\* state file or of the backup file, and no Notifier call names it.
C6_Exclusion ==
    \A p \in ExcludedPaths :
        /\ p \notin Keys(current_files)
        /\ p \notin KeysInFile(hashFile)
        /\ p \notin KeysInFile(backupFile)
        /\ CallsFor(p) = 0

C6_Witness ==
    /\ pc = "report"
    /\ saveStatus = "done"
    /\ fs[PathTmp] /= NoFile
    /\ fs[PathGit] /= NoFile
    /\ Keys(current_files) /= {}

\* the snapshot being built is complete: os.walk has ended
WalkEnded == pc \in SavePcs \cup {"deleted", "report"}

Candidates == AllPaths \ ExcludedPaths

FailedPaths == {p \in Candidates : fs[p] /= NoFile /\ p \in unreadable}

\* C7: when the digest of a file fails in a cycle, the walk still ends with
\* every other existing, readable, not excluded file in the new snapshot
\* under the digest of its content, and without the failed path.
C7_DigestFailureIsolated ==
    (WalkEnded /\ FailedPaths /= {}) =>
        /\ \A p \in Candidates :
              (fs[p] /= NoFile /\ p \notin unreadable) =>
                  (p \in Keys(current_files) /\ current_files[p] = Sha256(fs[p]))
        /\ \A p \in FailedPaths : p \notin Keys(current_files)

C7_Witness ==
    /\ pc = "report"
    /\ PathA \in FailedPaths
    /\ PathB \in Keys(current_files)

\* C8: a path whose digest fails in a cycle gets no Deleted and no Modified
\* Notifier call in that cycle.
C8_UnreadableNotDeleted ==
    \A i \in DOMAIN alerts :
        alerts[i].path \in FailedPaths =>
            alerts[i].change_type \notin {"Deleted", "Modified"}

\* C9: the monitor process ends on Ctrl+C only, never on an exception.
C9_NeverCrashes == pc /= "crashed"

SaveFailed == saveStatus \in {"failed_open", "failed_write"}

\* C10: when save_hashes of a cycle has failed, every added, modified and
\* deleted path of the cycle has had its Notifier call, and if the failure
\* came before the state file was opened for writing the state file is what
\* it was when the save began.
C10_DetectionDecoupled ==
    (pc = "report" /\ SaveFailed) =>
        /\ \A p \in AddedPaths \cup ModifiedPaths \cup DeletedPaths : CallsFor(p) >= 1
        /\ saveStatus = "failed_open" => hashFile = priorFile

C10_Witness ==
    /\ pc = "report"
    /\ saveStatus = "failed_open"
    /\ priorFile.text /= <<>>
    /\ AddedPaths /= {}
    /\ DeletedPaths /= {}

\* C12: every cycle that reaches its summary has called save_hashes.
C12_AlwaysSaves == pc = "report" => saveStatus /= "none"

\* C14: without the watched root, no cycle reports the known files as
\* deleted and persists the empty snapshot.
C14_NoScanWithoutRoot ==
    ~ /\ ~rootExists
      /\ pc = "report"
      /\ DeletedPaths /= {}
      /\ \A p \in DeletedPaths : Calls(p, "Deleted") = 1
      /\ saveStatus = "done"
      /\ hashFile = FileWith(JsonDump(EmptySnap))

\* C16: no step taken before save_hashes is entered - a step of the scan, a
\* notification or Ctrl+C - changes the state file or the backup file.
C16_NoWriteBeforeSave ==
    [][(pc \in {"sleep", "walk", "deleted"}) =>
          (hashFile' = hashFile /\ backupFile' = backupFile)]_vars

C16_Witness ==
    /\ pc = "stopped"
    /\ stoppedAt \in {"walk", "deleted"}
    /\ alerts /= <<>>
    /\ hashFile.exists

\* C17: after a failed backup copy save_hashes goes on to open the state
\* file, and when that write is neither failing nor interrupted the state
\* file holds the new snapshot at the end of the call.
C17_BackupBestEffort ==
    /\ (BackupFailed /\ pc /= "stopped") => pc \in {"st_open", "st_dump", "report"}
    /\ (BackupFailed /\ pc = "report") =>
          /\ saveStatus \in {"done", "failed_open", "failed_write"}
          /\ saveStatus = "done" => hashFile = FileWith(JsonDump(current_files))

C17_Witness ==
    /\ pc = "report"
    /\ BackupFailed
    /\ saveStatus = "done"
    /\ hashFile /= priorFile
    /\ backupFile /= priorFile

\* C18: a cycle that skips save_hashes loaded exactly the snapshot it built,
\* and after a cycle without a failed write load_hashes returns the
\* snapshot the cycle built.
C18_SkipSound ==
    /\ (pc = "report" /\ saveStatus = "none") => hashes = current_files
    /\ (pc = "report" /\ saveStatus \in {"none", "done"}) =>
          /\ load_hashes(hashFile).kind \in {"dict", "reset"}
          /\ load_hashes(hashFile).value = current_files

C18_Witness ==
    /\ pc = "report"
    /\ saveStatus = "none"
    /\ current_files /= EmptySnap
    /\ hashFile.exists

EntryOf(d, p) == IF p \in DOMAIN d THEN d[p] ELSE None

\* C19: after save_hashes has run - to its end, into a failure or into an
\* interrupt - every path whose persisted entry is new, altered or gone
\* with respect to the snapshot persisted before has had a Notifier call
\* in the cycle.
C19_NotifyBeforePersist ==
    (saveStatus /= "none" /\ pc \in {"report", "stopped"}) =>
        \A p \in AllPaths :
            EntryOf(load_hashes(hashFile).value, p)
                  /= EntryOf(load_hashes(priorFile).value, p)
               => CallsFor(p) >= 1

Unparsable(file) ==
    /\ file.exists
    /\ load_hashes(file).kind \in {"reset", "UnicodeDecodeError"}

ResetLogged == "Error reading hash file. Resetting..." \in log

\* C13: an unparsable state file never ends the process; the cycle that
\* found it starts from the empty snapshot, reports every file it hashed as
\* added and none as modified or deleted; the cycle after it, over an
\* unchanged folder and a written state file, reports no added path.
C13_CorruptRecovery ==
    /\ pc = "crashed" => ~Unparsable(hashFile)
    /\ (pc \in {"walk", "deleted"} /\ Unparsable(hashFile)) =>
          hashes = EmptySnap /\ hashesIsDict /\ ResetLogged
    /\ (CycleReported /\ ResetLogged) =>
          /\ AddedPaths = Keys(current_files)
          /\ ModifiedPaths = {}
          /\ DeletedPaths = {}
          /\ \A p \in AddedPaths : Calls(p, "New File Added") = 1
    /\ (CycleReported /\ prevRun.known /\ ~prevRun.writeFailed) =>
          AddedPaths = {}

SnapA(c) == [p \in {PathA} |-> Sha256(c)]

CleanReport == pc = "report" /\ ~SaveFailed

\* C15: from no state file and a folder holding a.txt alone with "hello",
\* four cycles in a row whose saves succeed: the first reports a.txt added
\* and persists {a.txt: H(hello)}; the second, nothing changed, reports
\* nothing and leaves the state file as is; the third, after the content
\* became "world", reports a.txt modified and persists {a.txt: H(world)};
\* the fourth, after a.txt was removed, reports a.txt deleted and persists
\* the empty snapshot.
C15_Lifecycle ==
    /\ (CleanReport /\ stage = "cycle1") =>
          /\ alerts = <<Alert(PathA, "New File Added")>>
          /\ hashFile = FileWith(JsonDump(SnapA("hello")))
    /\ (CleanReport /\ stage = "cycle2") =>
          /\ alerts = <<>>
          /\ hashFile = FileWith(JsonDump(SnapA("hello")))
    /\ (CleanReport /\ stage = "cycle3") =>
          /\ alerts = <<Alert(PathA, "Modified")>>
          /\ hashFile = FileWith(JsonDump(SnapA("world")))
    /\ (CleanReport /\ stage = "cycle4") =>
          /\ alerts = <<Alert(PathA, "Deleted")>>
          /\ hashFile = FileWith(JsonDump(EmptySnap))

C15_Witness ==
    /\ CleanReport
    /\ stage = "cycle4"
    /\ saveStatus = "done"
    /\ backupFile = FileWith(JsonDump(SnapA("world")))

WellFormed(file) == file.exists /\ IsObjectText(file.text)

\* C20: once a save has completed, the state file or the backup file holds
\* a complete JSON object in every state.
C20_Recoverable ==
    everSaved => WellFormed(hashFile) \/ WellFormed(backupFile)

====
